---- MODULE Spec2Model ----
(***************************************************************************)
(* Model of the outbound proxy client (proxy/client.go): Client.Run,       *)
(* Client.listen, Client.handleConn, Client.Shutdown and copyThenClose.    *)
(* Every goroutine is a process with its own program counter; the shared   *)
(* state is Client.connectionsCounter, the connSrc channel, the context    *)
(* and, per session, the firstErr channel and the two endpoints.           *)
(***************************************************************************)
EXTENDS Integers, Naturals, Sequences, FiniteSets, TLC

\* ------------------------------------------------------------------ bounds
\* connections that can be open at the same time: a connection whose
\* goroutines have all ended gives its slot to the next accepted connection
NumConns == 2
\* largest configured Client.MaxConnections (0 means no limit)
MaxLimit == 1

Conns == 1..NumConns

\* ------------------------------------------------------ uint64 arithmetic
\* A uint64 is four 16-bit limbs, least significant first.
Limb == 2^16

U64(n) == <<n % Limb, (n \div Limb) % Limb, 0, 0>>

\* ^uint64(0)
AllOnes == <<Limb - 1, Limb - 1, Limb - 1, Limb - 1>>

\* atomic.AddUint64: addition modulo 2^64, the carry out of the top limb is lost
AddUint64(a, d) ==
  LET s1 == a[1] + d[1]
      s2 == a[2] + d[2] + (s1 \div Limb)
      s3 == a[3] + d[3] + (s2 \div Limb)
      s4 == a[4] + d[4] + (s3 \div Limb)
  IN  <<s1 % Limb, s2 % Limb, s3 % Limb, s4 % Limb>>

\* a > b on uint64
GtUint64(a, b) ==
  \/ a[4] > b[4]
  \/ a[4] = b[4] /\ a[3] > b[3]
  \/ a[4] = b[4] /\ a[3] = b[3] /\ a[2] > b[2]
  \/ a[4] = b[4] /\ a[3] = b[3] /\ a[2] = b[2] /\ a[1] > b[1]

\* --------------------------------------------------------------- the state
VARIABLES
  MaxConnections,  \* Client.MaxConnections (configuration, uint64)
  connectionsCounter, \* Client.connectionsCounter (uint64)
  cancelled,       \* ctx.Done() is closed
  rpc,             \* Run: "start", "select", "shutdown", "done"
  runResult,       \* the error Run returned
  lpc,             \* listen goroutine: "none", "bind", "accept", "sleep",
                   \* "send", "exit"
  listener,        \* l: "none", "open", "closed"
  listenErr,       \* the error listen returned
  conn,            \* the connection listen holds between Accept and send
  connSrc,         \* the channel of capacity 1
  hpc,             \* per connection: position of its handleConn goroutine
  active,          \* per connection: the local `active` of handleConn
  result,          \* per connection: the error handleConn returned
  local,           \* per connection: the accepted socket
  remote,          \* per connection: the dialed socket
  localCloses,     \* per connection: Close calls on the accepted socket
  remoteCloses,    \* per connection: Close calls on the dialed socket
  firstErr,        \* per connection: the firstErr channel of capacity 1
  bpc,             \* per connection: position of copyThenClose's goroutine
  reports,         \* per connection: the lines copyThenClose logged
  spc,             \* Shutdown: "idle", "loop", "load", "done"
  tickReady,       \* ticker.C holds a tick
  termReady,       \* the time.After channel holds a value
  timeout,         \* Shutdown's parameter
  bailed,          \* Shutdown logged "no connections to wait, bailing out"
  sdResult,        \* the error Shutdown returned
  mpc,             \* realMain of the inbound server: "none", "setup",
                   \* "listen", "accept", "dial", "relay", "exit"
  mainErr,         \* the error realMain returned
  vpc,             \* the Peer Verifier callback: "none", "call", "done"
  instanceName,    \* the name the callback was generated for
  pool,            \* the pinned roots the callback was generated for
  rawCerts,        \* the chain the peer presents, leaf first
  verr,            \* the error the callback returned
  cpc,             \* one myCopy call: "none", "read", "write", "ret", "logged"
  got,             \* number of source bytes Read has returned so far
  put,             \* the slices Write has taken, as source byte ranges
  nread,           \* n of the last Read
  rdErr,           \* err of the last Read
  wrErr,           \* werr of the last Write
  nreads,          \* number of Read calls so far
  copyRet,         \* what myCopy returned
  copyLog          \* what the caller logged for it

vars == <<MaxConnections, connectionsCounter, cancelled, rpc, runResult, lpc,
          listener, listenErr, conn, connSrc, hpc, active,
          result, local, remote, localCloses, remoteCloses, firstErr,
          bpc, reports, spc, tickReady, termReady, timeout, bailed,
          sdResult, mpc, mainErr, vpc, instanceName, pool, rawCerts, verr,
          cpc, got, put, nread, rdErr, wrErr, nreads, copyRet, copyLog>>

\* the state of the inbound server
inVars == <<mpc, mainErr>>

\* the state of a Peer Verifier call
pvVars == <<vpc, instanceName, pool, rawCerts, verr>>

\* the state of one myCopy call
cpVars == <<cpc, got, put, nread, rdErr, wrErr, nreads, copyRet, copyLog>>

auxVars == <<inVars, pvVars, cpVars>>

runVars == <<rpc, runResult>>
listenVars == <<lpc, listener, listenErr, conn>>
sockVars == <<local, remote, localCloses, remoteCloses>>
relayVars == <<firstErr, bpc, reports>>
sdVars == <<spc, tickReady, termReady, timeout, bailed, sdResult>>

NoErr == [kind |-> "nil"]

\* termTimeout := time.Second * 1, in milliseconds
termTimeout == 1000

\* a Client as constructed, no connection yet
Fresh ==
  /\ MaxConnections \in {U64(m) : m \in 0..MaxLimit}
  /\ connectionsCounter = U64(0)
  /\ cancelled = FALSE
  /\ runResult = NoErr
  /\ listenErr = NoErr
  /\ conn = 0
  /\ connSrc = <<>>
  /\ hpc = [c \in Conns |-> "idle"]
  /\ active = [c \in Conns |-> U64(0)]
  /\ result = [c \in Conns |-> NoErr]
  /\ local = [c \in Conns |-> "none"]
  /\ remote = [c \in Conns |-> "none"]
  /\ localCloses = [c \in Conns |-> 0]
  /\ remoteCloses = [c \in Conns |-> 0]
  /\ firstErr = [c \in Conns |-> <<>>]
  /\ bpc = [c \in Conns |-> "none"]
  /\ reports = [c \in Conns |-> <<>>]
  /\ spc = "idle"
  /\ tickReady = FALSE
  /\ termReady = FALSE
  /\ timeout = 0
  /\ bailed = FALSE
  /\ sdResult = NoErr

\* the inbound server is not running
InboundIdle ==
  /\ mpc = "none"
  /\ mainErr = NoErr

\* no handshake is calling the Peer Verifier
VerifierIdle ==
  /\ vpc = "none"
  /\ instanceName = ""
  /\ pool = {}
  /\ rawCerts = <<>>
  /\ verr = NoErr

\* no myCopy call is followed byte by byte
CopyIdle ==
  /\ cpc = "none"
  /\ got = 0
  /\ put = <<>>
  /\ nread = 0
  /\ rdErr = "nil"
  /\ wrErr = "nil"
  /\ nreads = 0
  /\ copyRet = [readErr |-> FALSE, err |-> "nil"]
  /\ copyLog = <<>>

AuxIdle == InboundIdle /\ VerifierIdle /\ CopyIdle

\* Run has not been called yet
Init ==
  /\ Fresh
  /\ AuxIdle
  /\ rpc = "start"
  /\ lpc = "none"
  /\ listener = "none"

\* Run is in its select and listen has bound the address
InitServing ==
  /\ Fresh
  /\ AuxIdle
  /\ rpc = "select"
  /\ lpc = "accept"
  /\ listener = "open"

\* ------------------------------------------------------------ Client.listen
\* l, err := net.Listen("tcp", c.LocalAddr)
ListenBind ==
  /\ lpc = "bind"
  /\ \E ok \in BOOLEAN :
       IF ok
       THEN /\ listener' = "open"
            /\ lpc' = "accept"
            /\ listenErr' = listenErr
       ELSE /\ listener' = listener
            /\ lpc' = "exit"
            /\ listenErr' = [kind |-> "error net.Listen"]
  /\ UNCHANGED <<auxVars, MaxConnections, connectionsCounter, cancelled, runVars, conn,
                 connSrc, hpc, active, result, sockVars, relayVars, sdVars>>

\* a slot is free when no goroutine of its previous connection is left
Free(c) == hpc[c] \in {"idle", "done"} /\ bpc[c] \in {"none", "done"}

\* the slot the next accepted connection takes
NextSlot == CHOOSE c \in Conns : Free(c) /\ \A d \in Conns : Free(d) => c <= d

\* conn, err := l.Accept() with err == nil: a new connection, its socket open.
\* The slot it takes starts over: nothing of the previous connection is left.
AcceptConn ==
  /\ lpc = "accept"
  /\ listener = "open"
  /\ \E c \in Conns : Free(c)
  /\ conn' = NextSlot
  /\ hpc' = [hpc EXCEPT ![NextSlot] = "accepted"]
  /\ bpc' = [bpc EXCEPT ![NextSlot] = "none"]
  /\ local' = [local EXCEPT ![NextSlot] = "open"]
  /\ remote' = [remote EXCEPT ![NextSlot] = "none"]
  /\ localCloses' = [localCloses EXCEPT ![NextSlot] = 0]
  /\ remoteCloses' = [remoteCloses EXCEPT ![NextSlot] = 0]
  /\ result' = [result EXCEPT ![NextSlot] = NoErr]
  /\ firstErr' = [firstErr EXCEPT ![NextSlot] = <<>>]
  /\ reports' = [reports EXCEPT ![NextSlot] = <<>>]
  /\ lpc' = "send"
  /\ UNCHANGED <<auxVars, MaxConnections, connectionsCounter, cancelled, runVars,
                 listener, listenErr, connSrc, active, sdVars>>

\* a temporary error is handled like any other: the listener is closed
AcceptTemporaryCloses ==
  /\ lpc = "accept"
  /\ listener = "open"
  /\ listener' = "closed"
  /\ lpc' = "sleep"
  /\ UNCHANGED <<auxVars, MaxConnections, connectionsCounter, cancelled, runVars,
                 listenErr, conn, connSrc, hpc, active, result,
                 sockVars, relayVars, sdVars>>

\* Accept fails with a temporary net.Error: sleep for the rest of the 10 ms
AcceptTemporary ==
  /\ lpc = "accept"
  /\ listener = "open"
  /\ lpc' = "sleep"
  /\ UNCHANGED <<auxVars, MaxConnections, connectionsCounter, cancelled, runVars,
                 listener, listenErr, conn, connSrc, hpc, active, result,
                 sockVars, relayVars, sdVars>>

\* continue: back to Accept
AcceptRetry ==
  /\ lpc = "sleep"
  /\ lpc' = "accept"
  /\ UNCHANGED <<auxVars, MaxConnections, connectionsCounter, cancelled, runVars,
                 listener, listenErr, conn, connSrc, hpc, active, result,
                 sockVars, relayVars, sdVars>>

\* Accept fails with any other error: l.Close(), return the error
AcceptFatal ==
  /\ lpc = "accept"
  /\ listener = "open"
  /\ listener' = "closed"
  /\ listenErr' = [kind |-> "error in accept"]
  /\ lpc' = "exit"
  /\ UNCHANGED <<auxVars, MaxConnections, connectionsCounter, cancelled, runVars, conn,
                 connSrc, hpc, active, result, sockVars, relayVars, sdVars>>

\* connSrc <- Conn{...}: blocks while the channel is full
ListenSend ==
  /\ lpc = "send"
  /\ Len(connSrc) < 1
  /\ connSrc' = Append(connSrc, conn)
  /\ hpc' = [hpc EXCEPT ![conn] = "queued"]
  /\ conn' = 0
  /\ lpc' = "accept"
  /\ UNCHANGED <<auxVars, MaxConnections, connectionsCounter, cancelled, runVars,
                 listener, listenErr, active, result, sockVars, relayVars,
                 sdVars>>

\* --------------------------------------------------------------- Client.Run
\* connSrc := make(chan Conn, 1); go c.listen(connSrc)
RunStart ==
  /\ rpc = "start"
  /\ rpc' = "select"
  /\ lpc' = "bind"
  /\ UNCHANGED <<auxVars, MaxConnections, connectionsCounter, cancelled, runResult,
                 listener, listenErr, conn, connSrc, hpc, active, result,
                 sockVars, relayVars, sdVars>>

\* case conn := <-connSrc: go func(lc Conn) { c.handleConn(...) }(conn)
RunDispatch ==
  /\ rpc = "select"
  /\ connSrc # <<>>
  /\ hpc' = [hpc EXCEPT ![Head(connSrc)] = "spawned"]
  /\ connSrc' = Tail(connSrc)
  /\ UNCHANGED <<auxVars, MaxConnections, connectionsCounter, cancelled, runVars,
                 listenVars, active, result, sockVars, relayVars, sdVars>>

\* case <-ctx.Done(): c.Shutdown(termTimeout) is called; Shutdown creates its
\* timer and its ticker
RunCancelled ==
  /\ rpc = "select"
  /\ cancelled
  /\ rpc' = "shutdown"
  /\ spc' = "loop"
  /\ timeout' = termTimeout
  /\ UNCHANGED <<auxVars, MaxConnections, connectionsCounter, cancelled, runResult,
                 listenVars, connSrc, hpc, active, result, sockVars,
                 relayVars, tickReady, termReady, bailed, sdResult>>

\* err := c.Shutdown(...); return nil or the wrapped error
RunReturn ==
  /\ rpc = "shutdown"
  /\ spc = "done"
  /\ rpc' = "done"
  /\ runResult' = IF sdResult = NoErr THEN NoErr
                  ELSE [kind |-> "error during shutdown", cause |-> sdResult]
  /\ UNCHANGED <<auxVars, MaxConnections, connectionsCounter, cancelled, listenVars,
                 connSrc, hpc, active, result, sockVars, relayVars, sdVars>>

\* the caller of Run cancels the context
Cancel ==
  /\ ~cancelled
  /\ cancelled' = TRUE
  /\ UNCHANGED <<auxVars, MaxConnections, connectionsCounter, runVars, listenVars,
                 connSrc, hpc, active, result, sockVars, relayVars, sdVars>>

\* ---------------------------------------------------------- Client.Shutdown
\* the runtime delivers a tick into ticker.C (capacity 1)
TickerFire ==
  /\ spc = "loop"
  /\ ~tickReady
  /\ tickReady' = TRUE
  /\ UNCHANGED <<auxVars, MaxConnections, connectionsCounter, cancelled, runVars,
                 listenVars, connSrc, hpc, active, result, sockVars,
                 relayVars, spc, termReady, timeout, bailed, sdResult>>

\* the runtime delivers the time.After(timeout) value
TimerFire ==
  /\ spc = "loop"
  /\ ~termReady
  /\ termReady' = TRUE
  /\ UNCHANGED <<auxVars, MaxConnections, connectionsCounter, cancelled, runVars,
                 listenVars, connSrc, hpc, active, result, sockVars,
                 relayVars, spc, tickReady, timeout, bailed, sdResult>>

\* case <-ticker.C: continue while the counter is positive, else log and break
ShutdownTick ==
  /\ spc = "loop"
  /\ tickReady
  /\ tickReady' = FALSE
  /\ IF GtUint64(connectionsCounter, U64(0))
     THEN UNCHANGED <<spc, bailed>>
     ELSE /\ bailed' = TRUE
          /\ spc' = "load"
  /\ UNCHANGED <<auxVars, MaxConnections, connectionsCounter, cancelled, runVars,
                 listenVars, connSrc, hpc, active, result, sockVars,
                 relayVars, termReady, timeout, sdResult>>

\* the timeout is received and the loop goes on
ShutdownTermIgnored ==
  /\ spc = "loop"
  /\ termReady
  /\ termReady' = FALSE
  /\ UNCHANGED <<auxVars, MaxConnections, connectionsCounter, cancelled, runVars,
                 listenVars, connSrc, hpc, active, result, sockVars,
                 relayVars, spc, tickReady, timeout, bailed, sdResult>>

\* case <-term: break
ShutdownTerm ==
  /\ spc = "loop"
  /\ termReady
  /\ termReady' = FALSE
  /\ spc' = "load"
  /\ UNCHANGED <<auxVars, MaxConnections, connectionsCounter, cancelled, runVars,
                 listenVars, connSrc, hpc, active, result, sockVars,
                 relayVars, tickReady, timeout, bailed, sdResult>>

\* what Shutdown returns for the value it loaded after the loop
DrainResult(a, t) ==
  IF a = U64(0) THEN NoErr
  ELSE [kind |-> "active connections still exist", active |-> a, timeout |-> t]

\* active := atomic.LoadUint64(&c.connectionsCounter); return (the deferred
\* ticker.Stop() runs, the timer channels are dropped)
ShutdownLoad ==
  /\ spc = "load"
  /\ sdResult' = DrainResult(connectionsCounter, timeout)
  /\ spc' = "done"
  /\ tickReady' = FALSE
  /\ termReady' = FALSE
  /\ UNCHANGED <<auxVars, MaxConnections, connectionsCounter, cancelled, runVars,
                 listenVars, connSrc, hpc, active, result, sockVars,
                 relayVars, timeout, bailed>>

\* -------------------------------------------------------- Client.handleConn
\* what a session action leaves alone outside the session state
ctlVars == <<auxVars, MaxConnections, cancelled, runVars, listenVars, connSrc,
            sdVars>>

\* the check compares against one more than the limit
TooManyOffByOne(a, m) ==
  GtUint64(m, U64(0)) /\ GtUint64(a, AddUint64(m, U64(1)))

\* c.MaxConnections > 0 && active > c.MaxConnections
TooMany(a, m) == GtUint64(m, U64(0)) /\ GtUint64(a, m)

\* active := atomic.AddUint64(&c.connectionsCounter, 1)
HcEnter(c) ==
  /\ hpc[c] = "spawned"
  /\ connectionsCounter' = AddUint64(connectionsCounter, U64(1))
  /\ active' = [active EXCEPT ![c] = connectionsCounter']
  /\ hpc' = [hpc EXCEPT ![c] = "check"]
  /\ UNCHANGED <<ctlVars, result, sockVars, relayVars>>

\* the admission check: conn.Close() and return the error, or go on; the
\* local `active` is not read again
HcCheck(c) ==
  /\ hpc[c] = "check"
  /\ IF TooMany(active[c], MaxConnections)
     THEN /\ local' = [local EXCEPT ![c] = "closed"]
          /\ localCloses' = [localCloses EXCEPT ![c] = @ + 1]
          /\ result' = [result EXCEPT ![c] = [kind |-> "too many open connections"]]
          /\ hpc' = [hpc EXCEPT ![c] = "defer"]
     ELSE /\ hpc' = [hpc EXCEPT ![c] = "cert"]
          /\ UNCHANGED <<local, localCloses, result>>
  /\ active' = [active EXCEPT ![c] = U64(0)]
  /\ UNCHANGED <<ctlVars, connectionsCounter, remote, remoteCloses, relayVars>>

\* cert, err := c.CertSource.Cert(ctx, instance, "branch")
HcCert(c) ==
  /\ hpc[c] = "cert"
  /\ \E ok \in BOOLEAN :
       IF ok
       THEN /\ hpc' = [hpc EXCEPT ![c] = "dial"]
            /\ result' = result
       ELSE /\ hpc' = [hpc EXCEPT ![c] = "defer"]
            /\ result' = [result EXCEPT ![c] = [kind |-> "couldn't retrieve certs"]]
  /\ UNCHANGED <<ctlVars, connectionsCounter, active, sockVars, relayVars>>

\* remoteConn, err := d.DialContext(ctx, "tcp", c.RemoteAddr); the keepalive
\* calls that follow a successful dial only log
HcDial(c) ==
  /\ hpc[c] = "dial"
  /\ \E ok \in BOOLEAN :
       IF ok
       THEN /\ remote' = [remote EXCEPT ![c] = "open"]
            /\ hpc' = [hpc EXCEPT ![c] = "handshake"]
            /\ UNCHANGED <<local, localCloses, result>>
       ELSE /\ local' = [local EXCEPT ![c] = "closed"]
            /\ localCloses' = [localCloses EXCEPT ![c] = @ + 1]
            /\ result' = [result EXCEPT ![c] = [kind |-> "couldn't connect"]]
            /\ hpc' = [hpc EXCEPT ![c] = "defer"]
            /\ remote' = remote
  /\ UNCHANGED <<ctlVars, connectionsCounter, active, remoteCloses, relayVars>>

\* the handshake error is logged and the session goes on
HcHandshakeUnchecked(c) ==
  /\ hpc[c] = "handshake"
  /\ \E ok \in BOOLEAN :
       /\ result' = [result EXCEPT ![c] =
            IF ok THEN @ ELSE [kind |-> "couldn't initiate TLS handshake"]]
       /\ hpc' = [hpc EXCEPT ![c] = "copy"]
       /\ bpc' = [bpc EXCEPT ![c] = "copy"]
  /\ UNCHANGED <<ctlVars, connectionsCounter, active, sockVars, firstErr,
                 reports>>

\* secureConn.Handshake(); on success copyThenClose starts its goroutine and
\* the caller enters myCopy(local, remote)
HcHandshake(c) ==
  /\ hpc[c] = "handshake"
  /\ \E ok \in BOOLEAN :
       IF ok
       THEN /\ hpc' = [hpc EXCEPT ![c] = "copy"]
            /\ bpc' = [bpc EXCEPT ![c] = "copy"]
            /\ UNCHANGED <<remote, remoteCloses, result>>
       ELSE /\ remote' = [remote EXCEPT ![c] = "closed"]
            /\ remoteCloses' = [remoteCloses EXCEPT ![c] = @ + 1]
            /\ result' = [result EXCEPT ![c] = [kind |-> "couldn't initiate TLS handshake"]]
            /\ hpc' = [hpc EXCEPT ![c] = "defer"]
            /\ bpc' = bpc
  /\ UNCHANGED <<ctlVars, connectionsCounter, active, local, localCloses,
                 firstErr, reports>>

\* the decrement is skipped when handleConn returns an error
HcDeferOnSuccessOnly(c) ==
  /\ hpc[c] = "defer"
  /\ connectionsCounter' = IF result[c] = NoErr
                           THEN AddUint64(connectionsCounter, AllOnes)
                           ELSE connectionsCounter
  /\ hpc' = [hpc EXCEPT ![c] = "done"]
  /\ UNCHANGED <<ctlVars, active, result, sockVars, relayVars>>

\* defer atomic.AddUint64(&c.connectionsCounter, ^uint64(0))
HcDefer(c) ==
  /\ hpc[c] = "defer"
  /\ connectionsCounter' = AddUint64(connectionsCounter, AllOnes)
  /\ hpc' = [hpc EXCEPT ![c] = "done"]
  /\ UNCHANGED <<ctlVars, active, result, sockVars, relayVars>>

\* ------------------------------------------------------------ copyThenClose
\* what myCopy can return: (readErr, err), err never nil
Outcomes == [readErr : BOOLEAN, err : {"EOF", "other"}]

\* logError(readDesc, writeDesc, readErr, err)
logError(readDesc, writeDesc, readErr, err) ==
  [kind |-> "error",
   desc |-> IF readErr THEN <<"reading data from", readDesc>>
            ELSE <<"writing data to", writeDesc>>,
   err |-> err]

\* the line the winning direction logs: closedLine for a read that ended with
\* io.EOF, logError otherwise
Report(closedLine, readDesc, writeDesc, o) ==
  IF o.readErr /\ o.err = "EOF"
  THEN [kind |-> "closed", desc |-> <<closedLine, readDesc>>, err |-> o.err]
  ELSE logError(readDesc, writeDesc, o.readErr, o.err)

\* the channel has capacity 2
CanSendCap2(ch) == Len(ch) < 2

\* case firstErr <- err: possible while the channel of capacity 1 is empty
CanSend(ch) == Len(ch) < 1

\* readErr, err := myCopy(local, remote) returns in the calling goroutine,
\* which then runs its select
FgSelect(c) ==
  /\ hpc[c] = "copy"
  /\ \E o \in Outcomes :
       IF CanSend(firstErr[c])
       THEN /\ firstErr' = [firstErr EXCEPT ![c] = Append(@, o.err)]
            /\ reports' = [reports EXCEPT ![c] = Append(@,
                   Report("instance closed connection", "remote", "local", o))]
            /\ hpc' = [hpc EXCEPT ![c] = "closeRemote"]
       ELSE /\ hpc' = [hpc EXCEPT ![c] = "defer"]
            /\ UNCHANGED <<firstErr, reports>>
  /\ UNCHANGED <<ctlVars, connectionsCounter, active, result, sockVars, bpc>>

\* remote.Close() in the calling goroutine
FgCloseRemote(c) ==
  /\ hpc[c] = "closeRemote"
  /\ remote' = [remote EXCEPT ![c] = "closed"]
  /\ remoteCloses' = [remoteCloses EXCEPT ![c] = @ + 1]
  /\ hpc' = [hpc EXCEPT ![c] = "closeLocal"]
  /\ UNCHANGED <<ctlVars, connectionsCounter, active, result, local,
                 localCloses, relayVars>>

\* local.Close() in the calling goroutine; copyThenClose and handleConn return
FgCloseLocal(c) ==
  /\ hpc[c] = "closeLocal"
  /\ local' = [local EXCEPT ![c] = "closed"]
  /\ localCloses' = [localCloses EXCEPT ![c] = @ + 1]
  /\ hpc' = [hpc EXCEPT ![c] = "defer"]
  /\ UNCHANGED <<ctlVars, connectionsCounter, active, result, remote,
                 remoteCloses, relayVars>>

\* readErr, err := myCopy(remote, local) returns in the started goroutine,
\* which then runs its select
BgSelect(c) ==
  /\ bpc[c] = "copy"
  /\ \E o \in Outcomes :
       IF CanSend(firstErr[c])
       THEN /\ firstErr' = [firstErr EXCEPT ![c] = Append(@, o.err)]
            /\ reports' = [reports EXCEPT ![c] = Append(@,
                   Report("client closed", "local", "remote", o))]
            /\ bpc' = [bpc EXCEPT ![c] = "closeRemote"]
       ELSE /\ bpc' = [bpc EXCEPT ![c] = "done"]
            /\ UNCHANGED <<firstErr, reports>>
  /\ UNCHANGED <<ctlVars, connectionsCounter, hpc, active, result, sockVars>>

\* remote.Close() in the started goroutine
BgCloseRemote(c) ==
  /\ bpc[c] = "closeRemote"
  /\ remote' = [remote EXCEPT ![c] = "closed"]
  /\ remoteCloses' = [remoteCloses EXCEPT ![c] = @ + 1]
  /\ bpc' = [bpc EXCEPT ![c] = "closeLocal"]
  /\ UNCHANGED <<ctlVars, connectionsCounter, hpc, active, result, local,
                 localCloses, firstErr, reports>>

\* local.Close() in the started goroutine, which then ends
BgCloseLocal(c) ==
  /\ bpc[c] = "closeLocal"
  /\ local' = [local EXCEPT ![c] = "closed"]
  /\ localCloses' = [localCloses EXCEPT ![c] = @ + 1]
  /\ bpc' = [bpc EXCEPT ![c] = "done"]
  /\ UNCHANGED <<ctlVars, connectionsCounter, hpc, active, result, remote,
                 remoteCloses, firstErr, reports>>

\* ------------------------------------------------------- the specification
Session(c) ==
  \/ HcEnter(c) \/ HcCheck(c) \/ HcCert(c) \/ HcDial(c) \/ HcHandshake(c)
  \/ FgSelect(c) \/ FgCloseRemote(c) \/ FgCloseLocal(c)
  \/ BgSelect(c) \/ BgCloseRemote(c) \/ BgCloseLocal(c)
  \/ HcDefer(c)

Next ==
  \/ RunStart \/ RunDispatch \/ RunCancelled \/ RunReturn \/ Cancel
  \/ ListenBind \/ AcceptConn \/ AcceptTemporary \/ AcceptRetry \/ AcceptFatal
  \/ ListenSend
  \/ TickerFire \/ TimerFire \/ ShutdownTick \/ ShutdownTerm \/ ShutdownLoad
  \/ \E c \in Conns : Session(c)

\* the whole program
Spec == Init /\ [][Next]_vars

\* the proxy serving connections: the context is not cancelled and Accept
\* does not fail
ServeNext ==
  \/ AcceptConn \/ ListenSend \/ RunDispatch
  \/ \E c \in Conns : Session(c)

ServeSpec == InitServing /\ [][ServeNext]_vars

\* ------------------------------------------------------------- admission
\* a limit is configured
Limited == GtUint64(MaxConnections, U64(0))

\* handleConn has incremented the counter and not yet decremented it
InProgress(c) ==
  hpc[c] \in {"check", "cert", "dial", "handshake", "copy", "closeRemote",
              "closeLocal", "defer"}

\* handleConn has passed the admission check and not yet returned
PastCheck(c) ==
  \/ hpc[c] \in {"cert", "dial", "handshake", "copy", "closeRemote", "closeLocal"}
  \/ hpc[c] = "defer" /\ result[c].kind # "too many open connections"

\* the session is admitted: its check passes or has passed
Admitted(c) ==
  \/ hpc[c] = "check" /\ ~TooMany(active[c], MaxConnections)
  \/ PastCheck(c)

\* handleConn is on its way out with the rejection
Rejected(c) ==
  hpc[c] = "defer" /\ result[c].kind = "too many open connections"

\* C1: with a limit M > 0, connectionsCounter is at most M in every state
C1_CounterAtMostMax ==
  Limited => ~GtUint64(connectionsCounter, MaxConnections)

\* C2: with a limit M > 0, the sessions that passed the admission check and
\* have not returned are never more than M
C2_AdmittedAtMostMax ==
  Limited => ~GtUint64(U64(Cardinality({c \in Conns : PastCheck(c)})),
                       MaxConnections)

\* as many sessions as the limit allows are past the check while another
\* one is being rejected
C2_Witness ==
  /\ Limited
  /\ U64(Cardinality({c \in Conns : PastCheck(c)})) = MaxConnections
  /\ \E c \in Conns : Rejected(c)

\* C3: a handleConn that starts while fewer than M sessions are admitted is
\* admitted
C3_AdmittedBelowMax ==
  [][\A c \in Conns :
       (/\ hpc[c] = "spawned" /\ hpc'[c] = "check"
        /\ Limited
        /\ GtUint64(MaxConnections, U64(Cardinality({d \in Conns : Admitted(d)}))))
       => ~TooMany(active'[c], MaxConnections)]_vars

\* C4: the handleConn of a connection that is denied does not increment
\* connectionsCounter
C4_DeniedNeverIncrements ==
  [][\A c \in Conns :
       (/\ hpc[c] = "spawned" /\ hpc'[c] = "check"
        /\ TooMany(active'[c], MaxConnections))
       => connectionsCounter' = connectionsCounter]_vars

\* C5: connectionsCounter equals the number of handleConn invocations between
\* their increment and their deferred decrement, on every exit path, so it
\* never wraps below zero
C5_CounterIsInProgress ==
  connectionsCounter = U64(Cardinality({c \in Conns : InProgress(c)}))

\* two sessions have returned on different paths, one of them rejected, and
\* the counter is back to zero
C5_Witness ==
  /\ connectionsCounter = U64(0)
  /\ \E c, d \in Conns :
       /\ hpc[c] = "done" /\ result[c].kind = "too many open connections"
       /\ hpc[d] = "done" /\ result[d] = NoErr /\ reports[d] # <<>>

\* ------------------------------------------------------------ the relay
\* both directions of copyThenClose have finished
RelayOver(c) == bpc[c] = "done" /\ hpc[c] \in {"defer", "done"}

Closing == {"closeRemote", "closeLocal"}

\* C6: in copyThenClose exactly one direction claims the firstErr slot; it
\* closes each endpoint once and logs one line, the other direction closes
\* nothing and logs nothing
C6_ExactlyOneCleanup ==
  \A c \in Conns :
    /\ ~(hpc[c] \in Closing /\ bpc[c] \in Closing)
    /\ Len(firstErr[c]) <= 1
    /\ Len(reports[c]) = Len(firstErr[c])
    /\ bpc[c] # "none" =>
         /\ remoteCloses[c] <= 1
         /\ localCloses[c] <= 1
         /\ (hpc[c] = "copy" /\ bpc[c] = "copy") =>
              remoteCloses[c] = 0 /\ localCloses[c] = 0
    /\ RelayOver(c) =>
         /\ Len(firstErr[c]) = 1
         /\ remoteCloses[c] = 1
         /\ localCloses[c] = 1

\* both directions have finished and the started goroutine was the one that
\* claimed the slot
C6_Witness ==
  \E c \in Conns :
    /\ RelayOver(c)
    /\ reports[c] # <<>>
    /\ reports[c][1].desc \in {<<"client closed", "local">>,
                               <<"reading data from", "local">>,
                               <<"writing data to", "remote">>}

\* ------------------------------------------------------- failed sessions
\* the session ended in a failure: handleConn returned an error or the relay
\* logged one
Failed(c) ==
  \/ result[c] # NoErr
  \/ \E i \in 1..Len(reports[c]) : reports[c][i].kind = "error"

\* C7: when a failed session is finished, every endpoint opened for it has
\* been closed
C7_FailedSessionClosesAll ==
  \A c \in Conns :
    (hpc[c] = "done" /\ Failed(c)) => (local[c] # "open" /\ remote[c] # "open")

\* ---------------------------------------------------------------- shutdown
\* C8: Shutdown returns nil when it saw the active count at zero before the
\* timeout, and otherwise a failure that carries the count still active and
\* the timeout it was given
C8_ShutdownResult ==
  spc = "done" =>
    /\ bailed => sdResult = NoErr
    /\ sdResult # NoErr =>
         /\ sdResult.kind = "active connections still exist"
         /\ GtUint64(sdResult.active, U64(0))
         /\ sdResult.timeout = timeout

\* The goroutine of Run is scheduled, the runtime fires the timer, and a
\* select whose case stays ready takes that case in the end (Go picks among
\* the ready cases at random).
Fairness ==
  /\ WF_vars(RunStart)
  /\ WF_vars(RunCancelled)
  /\ WF_vars(RunReturn)
  /\ WF_vars(TimerFire)
  /\ WF_vars(ShutdownTerm)
  /\ WF_vars(ShutdownLoad)

LiveSpec == Spec /\ Fairness

\* C9: once the context is cancelled Run returns, whatever the sessions and
\* the listener do, and no step of Run or Shutdown touches a session's sockets
C9_RunReturnsAfterCancel ==
  /\ cancelled ~> rpc = "done"
  /\ [][(runVars' # runVars \/ sdVars' # sdVars) => UNCHANGED sockVars]_vars

\* Run has returned the drain failure while a session is still relaying with
\* both sockets open and another connection waits in connSrc
C9_Witness ==
  /\ cancelled
  /\ rpc = "done"
  /\ runResult # NoErr
  /\ connSrc # <<>>
  /\ \E c \in Conns : hpc[c] = "copy" /\ local[c] = "open" /\ remote[c] = "open"

\* C10: when listen has returned an error, Run returns that error without
\* the context being cancelled
C10_AcceptorFailureEndsRun ==
  (lpc = "exit") ~> (rpc = "done" /\ runResult = listenErr)

\* ------------------------------------------------------- the listen loop
\* the proxy from the call of Run on, the context never cancelled
ListenNext ==
  \/ RunStart \/ RunDispatch
  \/ ListenBind \/ AcceptConn \/ AcceptTemporary \/ AcceptRetry \/ AcceptFatal
  \/ ListenSend
  \/ \E c \in Conns : Session(c)

ListenSpec == Init /\ [][ListenNext]_vars

\* C11: a temporary accept error leaves the listener open and the loop goes
\* back to Accept; the first other accept error closes the listener and ends
\* the loop with the wrapping error; nothing is accepted after that
C11_ListenLoop ==
  [][/\ (lpc = "accept" /\ lpc' = "sleep") =>
          (listener' = "open" /\ listenErr' = NoErr)
     /\ lpc = "sleep" => (lpc' \in {"sleep", "accept"} /\ listener' = "open")
     /\ (lpc = "accept" /\ lpc' = "exit") =>
          (listener' = "closed" /\ listenErr'.kind = "error in accept")
     /\ lpc = "exit" =>
          /\ lpc' = "exit"
          /\ listener' = listener
          /\ \A c \in Conns : hpc'[c] = "accepted" => hpc[c] = "accepted"]_vars

\* the loop has ended on an accept error after it had accepted connections
C11_Witness ==
  /\ lpc = "exit"
  /\ listener = "closed"
  /\ listenErr.kind = "error in accept"
  /\ \E c \in Conns : hpc[c] # "idle"

\* --------------------------------------------- the inbound server, realMain
\* realMain accepts TLS connections and relays them to the backend. Its file
\* carries its own copyThenClose and myCopy, line for line those of the
\* client: the relay actions above stand for both, hpc[c] being the position
\* of the calling side ("defer": copyThenClose has returned to its caller).

\* what realMain never touches
outVars == <<MaxConnections, connectionsCounter, cancelled, runVars, lpc,
             listenErr, connSrc, active, result, sdVars, pvVars, cpVars>>

\* the CA file is read and the key pair loaded; either can fail
MainSetup ==
  /\ mpc = "setup"
  /\ \E ok \in BOOLEAN :
       IF ok
       THEN mpc' = "listen" /\ mainErr' = mainErr
       ELSE mpc' = "exit" /\ mainErr' = [kind |-> "setup"]
  /\ UNCHANGED <<outVars, listener, conn, hpc, sockVars, relayVars>>

\* l, err := net.Listen("tcp", localAddr)
MainListen ==
  /\ mpc = "listen"
  /\ \E ok \in BOOLEAN :
       IF ok
       THEN mpc' = "accept" /\ listener' = "open" /\ mainErr' = mainErr
       ELSE mpc' = "exit" /\ listener' = listener
            /\ mainErr' = [kind |-> "net.Listen"]
  /\ UNCHANGED <<outVars, conn, hpc, sockVars, relayVars>>

\* c, err := l.Accept() with err == nil; tlsConn := tls.Server(c, cfg)
MainAccept ==
  /\ mpc = "accept"
  /\ \E c \in Conns : Free(c)
  /\ conn' = NextSlot
  /\ hpc' = [hpc EXCEPT ![NextSlot] = "accepted"]
  /\ bpc' = [bpc EXCEPT ![NextSlot] = "none"]
  /\ local' = [local EXCEPT ![NextSlot] = "open"]
  /\ remote' = [remote EXCEPT ![NextSlot] = "none"]
  /\ localCloses' = [localCloses EXCEPT ![NextSlot] = 0]
  /\ remoteCloses' = [remoteCloses EXCEPT ![NextSlot] = 0]
  /\ firstErr' = [firstErr EXCEPT ![NextSlot] = <<>>]
  /\ reports' = [reports EXCEPT ![NextSlot] = <<>>]
  /\ mpc' = "dial"
  /\ UNCHANGED <<outVars, listener, mainErr>>

\* Accept fails, with whatever error: return err
MainAcceptError ==
  /\ mpc = "accept"
  /\ mpc' = "exit"
  /\ mainErr' = [kind |-> "accept"]
  /\ UNCHANGED <<outVars, listener, conn, hpc, sockVars, relayVars>>

\* backendConn, err := net.Dial("tcp", backendAddr); on success
\* copyThenClose(backendConn, tlsConn, ...) is called in the loop itself
MainDial ==
  /\ mpc = "dial"
  /\ \E ok \in BOOLEAN :
       IF ok
       THEN /\ remote' = [remote EXCEPT ![conn] = "open"]
            /\ hpc' = [hpc EXCEPT ![conn] = "copy"]
            /\ bpc' = [bpc EXCEPT ![conn] = "copy"]
            /\ mpc' = "relay"
            /\ mainErr' = mainErr
       ELSE /\ mpc' = "exit"
            /\ mainErr' = [kind |-> "couldn't connect to backend"]
            /\ UNCHANGED <<remote, hpc, bpc>>
  /\ UNCHANGED <<outVars, listener, conn, local, localCloses, remoteCloses,
                 firstErr, reports>>

\* copyThenClose has returned: the loop goes back to Accept
MainLoop ==
  /\ mpc = "relay"
  /\ hpc[conn] = "defer"
  /\ hpc' = [hpc EXCEPT ![conn] = "done"]
  /\ conn' = 0
  /\ mpc' = "accept"
  /\ UNCHANGED <<outVars, listener, mainErr, sockVars, relayVars>>

\* the relay of a connection, both directions
Relay(c) ==
  \/ FgSelect(c) \/ FgCloseRemote(c) \/ FgCloseLocal(c)
  \/ BgSelect(c) \/ BgCloseRemote(c) \/ BgCloseLocal(c)

InboundNext ==
  \/ MainSetup \/ MainListen \/ MainAccept \/ MainAcceptError \/ MainDial
  \/ MainLoop
  \/ \E c \in Conns : Relay(c)

\* realMain is called; there is no client and no admission limit
InitInbound ==
  /\ Fresh
  /\ MaxConnections = U64(0)
  /\ rpc = "start"
  /\ lpc = "none"
  /\ listener = "none"
  /\ mpc = "setup"
  /\ mainErr = NoErr
  /\ VerifierIdle
  /\ CopyIdle

InboundSpec == InitInbound /\ [][InboundNext]_vars

\* the calling side of a connection's relay is copying
Relaying(c) == hpc[c] = "copy"

\* C12: every accepted connection gets its own concurrent session: while a
\* session relays, the goroutine that accepts connections is not the one
\* running that relay (true of listen and Run by construction, claimed of
\* realMain as well)
C12_AcceptNeverWaitsForRelay ==
  \A c \in Conns : Relaying(c) => mpc # "relay"

\* C13: a failed dial ends only its session: the accept loop does not end
\* with the dial error
C13_DialFailureIsPerSession ==
  mpc = "exit" => mainErr.kind # "couldn't connect to backend"

\* ------------------------------------------- genVerifyPeerCertificateFunc

MaxChain == 2

\* the roots a pool can pin, the issuers a certificate can name ("int1" is an
\* intermediate authority signed by "ca1") and the subject names
Roots == {"ca1", "ca2"}
Issuers == Roots \cup {"int1"}
Names == {"proj:region:db", "proj:region:db2", "PROJ:REGION:DB"}

\* the raw certificates a peer can present: bytes that are not a certificate,
\* or the encoding of a certificate
RawCerts ==
  {[der |-> FALSE]} \cup
  [der : {TRUE}, issuer : Issuers, cn : Names, expired : BOOLEAN]

RECURSIVE ChainsOfLen(_)
ChainsOfLen(n) ==
  IF n = 0 THEN {<<>>}
  ELSE {Append(ch, r) : ch \in ChainsOfLen(n - 1), r \in RawCerts}

Chains == UNION {ChainsOfLen(n) : n \in 0..MaxChain}

\* x509.ParseCertificate
ParseCertificate(raw) ==
  IF raw.der
  THEN [err |-> NoErr,
        cert |-> [Issuer |-> raw.issuer, CommonName |-> raw.cn,
                  Expired |-> raw.expired]]
  ELSE [err |-> [kind |-> "x509.ParseCertificate(rawCerts[0]) returned error"]]

\* cert.Verify(x509.VerifyOptions{Roots: roots}): no intermediates are given,
\* so the certificate must be issued by one of the roots, and be in date
CertVerify(cert, roots) ==
  IF cert.Issuer \notin roots
  THEN [kind |-> "x509: certificate signed by unknown authority"]
  ELSE IF cert.Expired
       THEN [kind |-> "x509: certificate has expired or is not yet valid"]
       ELSE NoErr

\* the callback without its last step
VerifyPeerCertificateAnyCN(name, roots, raws) ==
  IF Len(raws) = 0 THEN [kind |-> "no certificate to verify"]
  ELSE LET p == ParseCertificate(raws[1])
       IN IF p.err # NoErr THEN p.err
          ELSE CertVerify(p.cert, roots)

\* the function genVerifyPeerCertificateFunc(name, roots) returns, applied
\* to the presented chain
VerifyPeerCertificate(name, roots, raws) ==
  IF Len(raws) = 0 THEN [kind |-> "no certificate to verify"]
  ELSE LET p == ParseCertificate(raws[1])
       IN IF p.err # NoErr THEN p.err
          ELSE LET v == CertVerify(p.cert, roots)
               IN IF v # NoErr THEN v
                  ELSE IF p.cert.CommonName # name
                       THEN [kind |-> "certificate had CN, expected",
                             had |-> p.cert.CommonName, expected |-> name]
                       ELSE NoErr

\* a handshake calls the callback
VerifyCall ==
  /\ vpc = "call"
  /\ verr' = VerifyPeerCertificate(instanceName, pool, rawCerts)
  /\ vpc' = "done"
  /\ UNCHANGED <<instanceName, pool, rawCerts, inVars, cpVars, MaxConnections,
                 connectionsCounter, cancelled, runVars, listenVars, connSrc,
                 hpc, active, result, sockVars, relayVars, sdVars>>

\* a callback generated for any name and pool, about to be called with any
\* chain
InitVerify ==
  /\ Fresh
  /\ MaxConnections = U64(0)
  /\ rpc = "start"
  /\ lpc = "none"
  /\ listener = "none"
  /\ InboundIdle
  /\ CopyIdle
  /\ vpc = "call"
  /\ instanceName \in Names
  /\ pool \in SUBSET Roots
  /\ rawCerts \in Chains
  /\ verr = NoErr

VerifySpec == InitVerify /\ [][VerifyCall]_vars

\* the four steps, stated on the presented bytes
ChainNonEmpty == Len(rawCerts) > 0
LeafParses == rawCerts[1].der
LeafChainsToPool == rawCerts[1].issuer \in pool /\ ~rawCerts[1].expired
LeafNameMatches == rawCerts[1].cn = instanceName

\* C14: the callback succeeds exactly when the chain is non-empty, its first
\* certificate parses, verifies against the pool and carries exactly the
\* expected CommonName; otherwise it returns the failure of the first of
\* these steps that does not hold
C14_VerifierDecision ==
  vpc = "done" =>
    /\ verr = NoErr <=>
         (ChainNonEmpty /\ LeafParses /\ LeafChainsToPool /\ LeafNameMatches)
    /\ ~ChainNonEmpty => verr.kind = "no certificate to verify"
    /\ (ChainNonEmpty /\ ~LeafParses) =>
         verr.kind = "x509.ParseCertificate(rawCerts[0]) returned error"
    /\ (ChainNonEmpty /\ LeafParses /\ ~LeafChainsToPool) =>
         verr.kind \in {"x509: certificate signed by unknown authority",
                        "x509: certificate has expired or is not yet valid"}
    /\ (ChainNonEmpty /\ LeafParses /\ LeafChainsToPool /\ ~LeafNameMatches) =>
         verr.kind = "certificate had CN, expected"

\* a verified leaf with another name is rejected although the rest of the
\* chain carries the expected name
C14_Witness ==
  /\ vpc = "done"
  /\ Len(rawCerts) = 2
  /\ rawCerts[2].der /\ rawCerts[2].cn = instanceName
  /\ verr.kind = "certificate had CN, expected"

\* -------------------------------------------------- myCopy, byte by byte
\* The source delivers the bytes 1, 2, 3, ... of its stream, so a range of
\* stream positions stands for the bytes themselves.

MaxReads == 3

\* buf := make([]byte, 4096)
BufSize == 4096

\* what src.Read(buf) can return for n (never more than len(buf)) and err
ReadSizes == {0, 1, BufSize - 1, BufSize}
ReadErrs == {"nil", "EOF", "other"}

\* what a failing dst.Write can return for werr
WriteErrs == {"EOF", "other"}

\* the whole buffer, whatever Read filled
SliceWholeBuf(lo, k) == [lo |-> lo, hi |-> lo + BufSize - 1]

\* buf[:k], the buffer holding the stream from position lo
Slice(lo, k) == [lo |-> lo, hi |-> lo + k - 1]

\* the write error is returned even after a failed read
WriteFailedIgnoresRead(e, w) == [readErr |-> FALSE, err |-> w]

\* werr != nil: return false, werr after a clean read, else return true, err
WriteFailed(e, w) ==
  IF e = "nil" THEN [readErr |-> FALSE, err |-> w]
  ELSE [readErr |-> TRUE, err |-> e]

\* n, err := src.Read(buf), and the way on when n is 0
CopyRead ==
  /\ cpc = "read"
  /\ nreads < MaxReads
  /\ \E k \in ReadSizes, e \in ReadErrs :
       /\ nread' = k
       /\ rdErr' = e
       /\ got' = got + k
       /\ IF k > 0
          THEN cpc' = "write" /\ copyRet' = copyRet
          ELSE IF e # "nil"
               THEN cpc' = "ret" /\ copyRet' = [readErr |-> TRUE, err |-> e]
               ELSE cpc' = "read" /\ copyRet' = copyRet
  /\ nreads' = nreads + 1
  /\ UNCHANGED <<put, wrErr, copyLog, inVars, pvVars, MaxConnections,
                 connectionsCounter, cancelled, runVars, listenVars, connSrc,
                 hpc, active, result, sockVars, relayVars, sdVars>>

\* dst.Write(buf[:n]) for n > 0, and the way on: a failing Write may have
\* taken a part of the slice
CopyWrite ==
  /\ cpc = "write"
  /\ \E ok \in BOOLEAN :
       IF ok
       THEN /\ put' = Append(put, Slice(got - nread + 1, nread))
            /\ wrErr' = "nil"
            /\ IF rdErr # "nil"
               THEN cpc' = "ret" /\ copyRet' = [readErr |-> TRUE, err |-> rdErr]
               ELSE cpc' = "read" /\ copyRet' = copyRet
       ELSE \E w \in WriteErrs, k \in {0, nread \div 2} :
            /\ put' = IF k > 0 THEN Append(put, Slice(got - nread + 1, k))
                      ELSE put
            /\ wrErr' = w
            /\ copyRet' = WriteFailed(rdErr, w)
            /\ cpc' = "ret"
  /\ UNCHANGED <<got, nread, rdErr, nreads, copyLog, inVars, pvVars,
                 MaxConnections, connectionsCounter, cancelled, runVars,
                 listenVars, connSrc, hpc, active, result, sockVars,
                 relayVars, sdVars>>

\* the background direction of copyThenClose wins the select and logs
CopyLog ==
  /\ cpc = "ret"
  /\ copyLog' = <<Report("client closed", "local", "remote", copyRet)>>
  /\ cpc' = "logged"
  /\ UNCHANGED <<got, put, nread, rdErr, wrErr, nreads, copyRet, inVars,
                 pvVars, MaxConnections, connectionsCounter, cancelled,
                 runVars, listenVars, connSrc, hpc, active, result, sockVars,
                 relayVars, sdVars>>

CopyNext == CopyRead \/ CopyWrite \/ CopyLog

\* myCopy has just been called
InitCopy ==
  /\ Fresh
  /\ MaxConnections = U64(0)
  /\ rpc = "start"
  /\ lpc = "none"
  /\ listener = "none"
  /\ InboundIdle
  /\ VerifierIdle
  /\ cpc = "read"
  /\ got = 0
  /\ put = <<>>
  /\ nread = 0
  /\ rdErr = "nil"
  /\ wrErr = "nil"
  /\ nreads = 0
  /\ copyRet = [readErr |-> FALSE, err |-> "nil"]
  /\ copyLog = <<>>

CopySpec == InitCopy /\ [][CopyNext]_vars

\* the number of bytes the destination has taken
Written == IF put = <<>> THEN 0 ELSE put[Len(put)].hi

\* myCopy has returned
Returned == cpc \in {"ret", "logged"}

\* C15: what has been written is always a prefix of what has been read, in
\* slices of at most 4096 bytes, one after the other; and when the direction
\* ends without a write failure everything read has been written, the bytes
\* that came with the read error included
C15_WrittenIsPrefixOfRead ==
  /\ \A i \in 1..Len(put) :
       /\ put[i].lo = (IF i = 1 THEN 1 ELSE put[i - 1].hi + 1)
       /\ put[i].lo <= put[i].hi
       /\ put[i].hi - put[i].lo + 1 <= BufSize
  /\ Written <= got
  /\ (Returned /\ wrErr = "nil") => Written = got

\* a read that fills the buffer and ends the stream: its bytes are written
C15_Witness ==
  /\ cpc = "ret"
  /\ rdErr = "EOF"
  /\ nread = BufSize
  /\ wrErr = "nil"
  /\ Len(put) >= 2
  /\ Written = got

\* C16: myCopy never returns a nil error; a failed write after a clean read
\* is a write failure, a failed read is a read failure whether or not a
\* write occurred; the winner logs "closed" exactly for a read failure with
\* end of stream, and otherwise an error tagged with the failing side
C16_Classification ==
  /\ Returned =>
       /\ copyRet \in Outcomes
       /\ copyRet.readErr <=> rdErr # "nil"
       /\ copyRet.readErr => copyRet.err = rdErr
       /\ ~copyRet.readErr => (wrErr # "nil" /\ copyRet.err = wrErr)
  /\ cpc = "logged" =>
       /\ copyLog[1].kind = "closed" <=>
            (copyRet.readErr /\ copyRet.err = "EOF")
       /\ copyLog[1].kind # "closed" =>
            /\ copyLog[1].kind = "error"
            /\ copyLog[1].err = copyRet.err
            /\ copyLog[1].desc =
                 IF copyRet.readErr THEN <<"reading data from", "local">>
                 ELSE <<"writing data to", "remote">>

\* the read and the write of its bytes both failed: logged as a read failure
C16_Witness ==
  /\ cpc = "logged"
  /\ rdErr = "other"
  /\ wrErr # "nil"
  /\ copyRet = [readErr |-> TRUE, err |-> "other"]
  /\ copyLog[1].desc = <<"reading data from", "local">>

\* ------------------------------------------------------- the session stages

\* the stages of handleConn in the order of its code, each with the one that
\* follows its success
StageOrder ==
  {<<"check", "cert">>, <<"cert", "dial">>, <<"dial", "handshake">>,
   <<"handshake", "copy">>}

\* the steps before admission, inside the relay, and after the session's end
OtherSteps ==
  {<<"idle", "accepted">>, <<"done", "accepted">>, <<"accepted", "queued">>,
   <<"queued", "spawned">>, <<"spawned", "check">>,
   <<"copy", "closeRemote">>, <<"closeRemote", "closeLocal">>,
   <<"closeLocal", "defer">>, <<"copy", "defer">>, <<"defer", "done">>}

\* the stages that can fail
Stages == {"check", "cert", "dial", "handshake"}

\* C17: a session moves through admission, credential fetch, dial, handshake
\* and relay in this order only, each entered on the success of the one
\* before; the relay starts only with both endpoints open and no failure; a
\* stage that fails ends the session, which enters no later stage
C17_StagesInOrder ==
  [][\A c \in Conns :
       /\ hpc'[c] # hpc[c] =>
            \/ /\ <<hpc[c], hpc'[c]>> \in StageOrder
               /\ result'[c] = NoErr
            \/ /\ hpc[c] \in Stages
               /\ hpc'[c] = "defer"
               /\ result'[c] # NoErr
            \/ <<hpc[c], hpc'[c]>> \in OtherSteps
       /\ (bpc[c] = "none" /\ bpc'[c] # "none") =>
            /\ hpc[c] = "handshake" /\ hpc'[c] = "copy" /\ bpc'[c] = "copy"
            /\ local'[c] = "open" /\ remote'[c] = "open"
       /\ (hpc'[c] = "copy" /\ hpc[c] # "copy") => bpc'[c] = "copy"
       /\ (hpc[c] # "idle" /\ result[c] # NoErr) =>
            /\ hpc[c] \in {"defer", "done"}
            /\ bpc[c] = "none"]_vars

\* one session relays while another has failed its handshake
C17_Witness ==
  \E c, d \in Conns :
    /\ hpc[c] = "copy" /\ bpc[c] = "copy" /\ result[c] = NoErr
    /\ hpc[d] = "defer" /\ result[d].kind = "couldn't initiate TLS handshake"
    /\ bpc[d] = "none"

\* the session went through copyThenClose
Relayed(c) == bpc[c] # "none"

\* C18: when a session that reached the relay has released its admission
\* slot, both of its endpoints are closed
C18_SlotReleasedAfterClose ==
  \A c \in Conns :
    (hpc[c] = "done" /\ Relayed(c)) =>
      (local[c] = "closed" /\ remote[c] = "closed")

\* the connection is in connSrc, or handed to a handleConn goroutine that
\* has not returned
InFlight(c) == hpc[c] \in {"queued", "spawned"} \/ InProgress(c)

\* C19: when Run has returned nil after the cancellation, no session is in
\* flight
C19_NothingInFlightAfterRun ==
  (rpc = "done" /\ runResult = NoErr) => \A c \in Conns : ~InFlight(c)

\* C20: once Run has returned, the listener accepts no connection
C20_NoAcceptAfterRun ==
  [][rpc = "done" =>
       \A c \in Conns : hpc'[c] = "accepted" => hpc[c] = "accepted"]_vars

====
